---- MODULE Spec2Model ----
(***************************************************************************)
(* A model of patrol's history store (package history: File, addItem,      *)
(* bgWriter, Append, GetGroupItems, New) and of its probe scheduler        *)
(* (package checker: Check, Start, Close).                                 *)
(*                                                                         *)
(* Time is counted in ticks: a createdAt value is the integer that         *)
(* CreatedAt.UTC().UnixNano() returns, scaled so that one UTC day          *)
(* (24*time.Hour) is DayTicks ticks.                                       *)
(***************************************************************************)
EXTENDS Integers, Sequences, FiniteSets, TLC

\* ------------------------------------------------------------------ bounds
\* createdAt of the entries submitted ranges over 0..MaxTime
MaxTime == 3
\* 24*time.Hour, in ticks
DayTicks == 3
\* number of addItem calls in a behaviour of SpecIndex
MaxOps == 4
\* File.maxEntries ranges over 0..MaxCap
MaxCap == 3

Nil == 0

Groups == {"g1"}
\* one boolean probe and one metric probe; a probe's kind is fixed by its
\* definition (config.go:131-140), so the kind is a function of the name
Names == {"b", "m"}
TypeOf(name) == IF name = "b" THEN "boolean" ELSE "metric"
Times == 0..MaxTime
\* the instants of boolean entries: those, and the first and the last instant
\* of the day before the epoch
BoolTimes == Times \cup {-DayTicks, -1}

\* history.Item as a caller hands it to Append (ID not yet derived)
NoID == <<>>
MkItem(g, n, t, s) ==
    [ID |-> NoID, Group |-> g, Name |-> n, Type |-> TypeOf(n),
     CreatedAt |-> t, Status |-> s]
IndexItems ==
    {MkItem(g, "m", t, "healthy") : g \in Groups, t \in Times}
        \cup {MkItem(g, "b", t, "healthy") : g \in Groups, t \in BoolTimes}

VARIABLES
    data,        \* File.data: group -> dataContainer [byID, head, tail]
    heap,        \* the listNodes allocated so far: ref -> [value, next, prev]
    maxEntries,  \* File.maxEntries
    hist,        \* the addItem calls made so far: <<[item, drops], ...>>
    logFile,     \* the lines of the log file (File.fd), as the OS holds them
    synced,      \* how many of these lines an fsync has forced to disk
    phase,       \* the store's life: "off", "up1", "closing", "down1", "up2",
                 \* "rejected"
    snap,        \* [data, heap] of the store the first New returned
    writes,      \* File.writes: the requests buffered, then those of the
                 \* senders blocked on the channel, in arrival order
    wlocked,     \* rwMux is held exclusively
    rlocked,     \* rwMux is held shared (by the reader)
    wpc,         \* where bgWriter is: "off", "select", "lock", "apply", "write",
                 \* "drain", "copy", "panic", "ack", "sync", "exited"
    wadd,        \* the addItem call bgWriter is in: the item it returns, the
                 \* nodes it drops, and the writes it has still to make
    wrecs,       \* bgWriter's records
    wbuf,        \* bgWriter's buffer: the lines serialized for this batch
    done,        \* File.done is closed
    fault,       \* the panic a goroutine has raised, or "none"
    halted,      \* the runtime has ended the process after a panic
    apc,         \* per Append caller: "idle", "wait", "done"
    aitem,       \* per Append caller: the entry of its request
    ares,        \* per Append caller: what errChan delivered: "none", "ok", "fault"
    rpc,         \* the reader in GetGroupItems: "idle", "locked", "head", "walk",
                 \* "next", and in GetGroups: "sized", "fill", "filled";
                 \* "panicked" once it has panicked
    rgrp,        \* the group the reader asked for
    rcont,       \* the reader's container: <<>> for nil, <<g>> for the
                 \* container of group g
    rcur,        \* the reader's curr
    rlist,       \* the reader's list
    keys,        \* the reader's keys in GetGroups
    MaxRetries,  \* Checker.MaxRetries
    ctype,       \* Checker.Type
    receiver,    \* Start was given a receiver that is not nil
    doneChan,    \* Checker.doneChan: "open" or "closed"
    wg,          \* the counter of Checker.wg
    lpc,         \* where the goroutine of Start is: "idle", "loop", "test",
                 \* "retryWait", "attempt", "poll", "append", "await",
                 \* "notify", "sleep", "exited", and "panicked" once
                 \* panic(err) has unwound it
    ci,          \* Check's i
    citem,       \* Check's item, then the item of Start's loop
    attempts,    \* the entries check() returned to the Check call, until
                 \* Start's loop has taken Check's item
    ran,         \* the last check() of that call: [err, stdout] of cmd.Run
                 \* and now, the time.Now() of the item
    notified,    \* the arguments of the last OnCheckerStatus call
    acked,       \* Append returned nil in this iteration of Start's loop
    notes,       \* the OnCheckerStatus calls of this iteration
    cpc          \* where the caller of Checker.Close is: "idle", "wait",
                 \* "returned"

idxVars == <<data, heap, maxEntries>>
diskVars == <<logFile, synced>>
recVars == <<phase, snap>>
lockVars == <<wlocked, rlocked>>
writerVars == <<wpc, wadd, wrecs, wbuf>>
callerVars == <<apc, aitem, ares>>
readerVars == <<rpc, rgrp, rcont, rcur, rlist, keys>>
schedVars == <<MaxRetries, ctype, receiver, doneChan, wg, lpc, ci, citem,
               attempts, ran, notified, acked, notes, cpc>>
vars == <<idxVars, hist, diskVars, recVars, writes, lockVars, writerVars, done,
          fault, halted, callerVars, readerVars, schedVars>>

\* ------------------------------------------------------------- the index
EmptyMap == [x \in {} |-> Nil]
EmptyContainer == [byID |-> EmptyMap, head |-> Nil, tail |-> Nil]

\* Go's integer division truncates toward zero
TruncDiv(a, b) == IF a >= 0 THEN a \div b ELSE -((-a) \div b)

\* the last instant whose nanosecond count fits an int64 (the year 2262)
NanoMax == MaxTime + 1
\* the last instant of the year 9999, the last one encoding/json marshals
JSONMaxTime == NanoMax + 1

\* item.CreatedAt.UTC().UnixNano(): the count wraps around beyond the int64 range
UnixNano(t) ==
    IF t > NanoMax THEN t - 2 * (NanoMax + 1)
    ELSE IF t < -(NanoMax + 1) THEN t + 2 * (NanoMax + 1)
    ELSE t

\* the day bucket of a boolean entry's identity
DayBucket(t) == TruncDiv(UnixNano(t), DayTicks)

\* the identity of a non-boolean entry: the first free sequence number
SeqID(ids, item) ==
    LET pre(n) == <<item.Group, item.Name, UnixNano(item.CreatedAt), n>>
        n == CHOOSE k \in 0..Cardinality(ids) :
                 /\ pre(k) \notin ids
                 /\ \A m \in 0..(k - 1) : pre(m) \in ids
    IN pre(n)

\* the identity addItem derives, given the identities present in the container
ItemID(ids, item) ==
    IF item.Type = "boolean"
    THEN <<item.Group, item.Name, DayBucket(item.CreatedAt), 0>>
    ELSE SeqID(ids, item)

\* Before with the comparison turned around
BeforeFlipped(t, u) == t > u

\* time.Time.Before
Before(t, u) == t < u

\* the scan of addItem: where the new node goes
RECURSIVE Scan(_, _, _, _)
Scan(h, prev, curr, t) ==
    IF curr = Nil THEN [inserted |-> FALSE, prev |-> prev]
    ELSE IF ~Before(t, h[curr].value.CreatedAt)
         THEN [inserted |-> TRUE, prev |-> prev]
         ELSE Scan(h, curr, h[curr].next, t)

Last(seq) == seq[Len(seq)]
Without(f, k) == [x \in (DOMAIN f) \ {k} |-> f[x]]

\* the zero value of history.Item, the value of a listNode just allocated
ZeroTime == -(2 * (NanoMax + 1))
ZeroValue ==
    [ID |-> NoID, Group |-> "", Name |-> "", Type |-> "",
     CreatedAt |-> ZeroTime, Status |-> ""]

\* A call of addItem in progress is a record s: file.data is s.d, container
\* is s.c (the container of group s.g), the nodes are s.h, item is s.item and
\* node is s.ref; s.writes are the writes the call has made to file.data, to
\* the container and to the nodes, in the order of the code, each as the
\* [data, heap] it left.  Below, x \in {e} names the value of e.

\* file.data and the nodes of s once its container is c and its nodes are h
Wrote(s, c, h) == [data |-> [s.d EXCEPT ![s.g] = c], heap |-> h]

\* addItem as far as node.value = item: the container is made when the group
\* is new, the identity is derived, the node is looked up or allocated
Located(d, h, item0) ==
    LET g == item0.Group
        d1 == IF g \in DOMAIN d THEN d ELSE d @@ (g :> EmptyContainer)
        c == d1[g]
        item == [item0 EXCEPT !.ID = ItemID(DOMAIN c.byID, item0)]
        exists == item.ID \in DOMAIN c.byID
        ref == IF exists THEN c.byID[item.ID] ELSE Len(h) + 1
        h0 == IF exists THEN h
              ELSE Append(h, [value |-> ZeroValue, next |-> Nil, prev |-> Nil])
        c1 == IF exists THEN c ELSE [c EXCEPT !.byID = @ @@ (item.ID :> ref)]
        h1 == [h0 EXCEPT ![ref].value = item]
    IN [d |-> d1, g |-> g, c |-> c1, h |-> h1, item |-> item, ref |-> ref,
        exists |-> exists, drops |-> 0, panic |-> FALSE,
        writes |-> (IF g \in DOMAIN d THEN <<>>
                    ELSE <<[data |-> d1, heap |-> h]>>)
                   \o (IF exists THEN <<>>
                       ELSE <<[data |-> [d1 EXCEPT ![g] = c1], heap |-> h0]>>)
                   \o <<[data |-> [d1 EXCEPT ![g] = c1], heap |-> h1]>>]

\* addItem: container.head = node; container.tail = node
First(s) ==
    LET c1 == [s.c EXCEPT !.head = s.ref]
        c2 == [c1 EXCEPT !.tail = s.ref]
    IN [s EXCEPT !.c = c2,
                 !.writes = @ \o <<Wrote(s, c1, s.h), Wrote(s, c2, s.h)>>]

\* addItem: the node is linked into a sequence that is not empty
Insert(s) ==
    LET c == s.c
        h == s.h
        ref == s.ref
        pos == Scan(h, Nil, c.head, s.item.CreatedAt)
    IN IF pos.inserted /\ pos.prev = Nil
       THEN LET h1 == [h EXCEPT ![ref].next = c.head]
                h2 == [h1 EXCEPT ![c.head].prev = ref]
                c3 == [c EXCEPT !.head = ref]
            IN [s EXCEPT !.c = c3, !.h = h2,
                         !.writes = @ \o <<Wrote(s, c, h1), Wrote(s, c, h2),
                                           Wrote(s, c3, h2)>>]
       ELSE IF pos.inserted
       THEN LET h1 == [h EXCEPT ![ref].prev = pos.prev]
                h2 == [h1 EXCEPT ![ref].next = h[pos.prev].next]
                h3 == [h2 EXCEPT ![pos.prev].next = ref]
            IN [s EXCEPT !.h = h3,
                         !.writes = @ \o <<Wrote(s, c, h1), Wrote(s, c, h2),
                                           Wrote(s, c, h3)>>]
       ELSE LET h1 == [h EXCEPT ![c.tail].next = ref]
                h2 == [h1 EXCEPT ![ref].prev = c.tail]
                c3 == [c EXCEPT !.tail = ref]
            IN [s EXCEPT !.c = c3, !.h = h2,
                         !.writes = @ \o <<Wrote(s, c, h1), Wrote(s, c, h2),
                                           Wrote(s, c3, h2)>>]

\* one round of the eviction loop, on a tail that is not nil
Drop(s) ==
    LET drop == s.c.tail
        c1 == [s.c EXCEPT !.tail = s.h[drop].prev]
        c2 == IF c1.tail = Nil THEN [c1 EXCEPT !.head = Nil] ELSE c1
        h2 == IF c1.tail = Nil THEN s.h
              ELSE [s.h EXCEPT ![c1.tail].next = Nil]
        c3 == [c2 EXCEPT !.byID = Without(@, s.h[drop].value.ID)]
    IN [s EXCEPT !.c = c3, !.h = h2, !.drops = @ + 1,
                 !.writes = @ \o <<Wrote(s, c1, s.h), Wrote(s, c2, h2),
                                   Wrote(s, c3, h2)>>]

\* the eviction loop of addItem; panic when it dereferences a nil tail
RECURSIVE Evict(_, _)
Evict(s, mx) ==
    IF Cardinality(DOMAIN s.c.byID) > mx
    THEN IF s.c.tail = Nil
         THEN [s EXCEPT !.panic = TRUE]
         ELSE CHOOSE r \in {Evict(t, mx) : t \in {Drop(s)}} : TRUE
    ELSE s

\* addItem from if item.Type == "metric" || !exists on
Link(s, mx) ==
    IF s.item.Type = "metric" \/ ~s.exists
    THEN IF s.c.head = Nil
         THEN First(s)
         ELSE CHOOSE r \in {Evict(t, mx) : t \in {Insert(s)}} : TRUE
    ELSE s

\* File.addItem as the writes it makes, with the item it returns and the
\* number of nodes it drops
AddItemWrites(d, h, mx, item0) ==
    CHOOSE r \in {[item |-> t.item, drops |-> t.drops, panic |-> t.panic,
                   writes |-> t.writes] :
                     t \in {Link(s, mx) : s \in {Located(d, h, item0)}}} : TRUE

\* File.addItem
AddItem(d, h, mx, item0) ==
    CHOOSE r \in {[data |-> Last(a.writes).data, heap |-> Last(a.writes).heap,
                   item |-> a.item, drops |-> a.drops, panic |-> a.panic] :
                     a \in {AddItemWrites(d, h, mx, item0)}} : TRUE

\* the traversal of GetGroupItems, from curr along next
RECURSIVE Traverse(_, _)
Traverse(h, curr) ==
    IF curr = Nil THEN <<>>
    ELSE <<h[curr].value>> \o Traverse(h, h[curr].next)

\* File.GetGroupItems on an existing group
GetGroupItems(g) == Traverse(heap, data[g].head)

\* ----------------------------------------------------- sequential upserts
NoSnap == [data |-> EmptyMap, heap |-> <<>>]

\* bgWriter is in no addItem call
NoAdd == [item |-> ZeroValue, drops |-> 0, panic |-> FALSE, writes |-> <<>>]

\* number of goroutines calling File.Append
NumCallers == 2
Callers == 1..NumCallers

\* the entry of a check: its status, error and metric, and which attempt of
\* the Check call it is
Entry(status, error, metric, k) ==
    [Status |-> status, Error |-> error, Metric |-> metric, Attempt |-> k]
\* the zero value of history.Item
ZeroItem == Entry("", "", 0, 0)
\* no command has run
NoRun == [err |-> "nil", stdout |-> <<>>, now |-> ZeroTime]

\* no Checker has been started
InitNoChecker ==
    /\ MaxRetries = 1 /\ ctype = "boolean" /\ receiver = FALSE
    /\ doneChan = "open" /\ wg = 0
    /\ lpc = "idle" /\ ci = 0 /\ citem = ZeroItem /\ attempts = <<>>
    /\ ran = NoRun
    /\ notified = ZeroItem /\ acked = FALSE /\ notes = 0 /\ cpc = "idle"

\* no request in flight, no coordinator, no reader
InitIdle ==
    /\ writes = <<>>
    /\ wlocked = FALSE /\ rlocked = FALSE
    /\ wrecs = <<>> /\ wbuf = <<>> /\ wadd = NoAdd
    /\ done = FALSE /\ fault = "none" /\ halted = FALSE
    /\ apc = [c \in Callers |-> "idle"]
    /\ aitem = [c \in Callers |-> MkItem("g1", "m", 0, "healthy")]
    /\ ares = [c \in Callers |-> "none"]
    /\ rpc = "idle" /\ rgrp = "g1" /\ rcont = <<>> /\ rcur = Nil
    /\ rlist = <<>>
    /\ keys = <<>>

InitIndex ==
    /\ data = EmptyMap
    /\ heap = <<>>
    /\ maxEntries \in 0..MaxCap
    /\ hist = <<>>
    /\ logFile = <<>> /\ synced = 0
    /\ phase = "up1" /\ snap = NoSnap
    /\ wpc = "off"
    /\ InitIdle
    /\ InitNoChecker

Upsert(item) ==
    /\ Len(hist) < MaxOps
    /\ LET r == AddItem(data, heap, maxEntries, item)
       IN /\ ~r.panic
          /\ data' = r.data
          /\ heap' = r.heap
          /\ hist' = Append(hist, [item |-> r.item, drops |-> r.drops])
    /\ UNCHANGED <<schedVars, maxEntries, diskVars, recVars, writes, lockVars,
                   writerVars, done, fault, halted, callerVars, readerVars>>

NextIndex == \E item \in IndexItems : Upsert(item)

SpecIndex == InitIndex /\ [][NextIndex]_vars

\* --------------------------------------------------- claims on the index
Range(s) == {s[i] : i \in 1..Len(s)}
HistItems == {hist[i].item : i \in 1..Len(hist)}

\* every upsert so far was a metric entry of group g, createdAt pairwise distinct
MetricRun(g) ==
    /\ \A i \in 1..Len(hist) :
           hist[i].item.Type = "metric" /\ hist[i].item.Group = g
    /\ \A i, j \in 1..Len(hist) :
           i # j => hist[i].item.CreatedAt # hist[j].item.CreatedAt

\* the k entries upserted so far with the greatest createdAt
Newest(k) ==
    {e \in HistItems :
        Cardinality({f \in HistItems : f.CreatedAt > e.CreatedAt}) < k}

StrictlyDescending(s) ==
    \A i \in 1..(Len(s) - 1) : s[i].CreatedAt > s[i + 1].CreatedAt

\* C4: with maxEntries = k >= 1, after k+m (m > 0) metric entries with
\* pairwise distinct createdAt were upserted into one group, in any order,
\* GetGroupItems returns exactly k entries, the k with the greatest createdAt.
C4_EvictionKeepsNewest ==
    \A g \in Groups :
        (maxEntries >= 1 /\ Len(hist) > maxEntries /\ MetricRun(g)) =>
            /\ Len(GetGroupItems(g)) = maxEntries
            /\ Range(GetGroupItems(g)) = Newest(maxEntries)

\* C6: after N >= 1 metric entries with pairwise distinct createdAt were
\* upserted into one group, in any order, with N <= maxEntries, GetGroupItems
\* returns all N of them, newest first (strictly descending createdAt).
C6_MetricAppend ==
    \A g \in Groups :
        (Len(hist) >= 1 /\ Len(hist) <= maxEntries /\ MetricRun(g)) =>
            /\ Len(GetGroupItems(g)) = Len(hist)
            /\ Range(GetGroupItems(g)) = HistItems
            /\ StrictlyDescending(GetGroupItems(g))

\* three metric entries arrived oldest-last-but-one (3, 1, 2): the third was
\* linked between the two others, and all three are returned
C6_Witness ==
    /\ maxEntries = 3 /\ Len(hist) = 3 /\ MetricRun("g1")
    /\ hist[1].item.CreatedAt = 3
    /\ hist[2].item.CreatedAt = 1
    /\ hist[3].item.CreatedAt = 2
    /\ Len(GetGroupItems("g1")) = 3

\* the calendar day (UTC) of an instant
UTCDay(t) == t \div DayTicks

\* the upserts of boolean entries of probe n of group g on day d
BoolSubmissions(g, n, d) ==
    {i \in 1..Len(hist) :
        /\ hist[i].item.Type = "boolean"
        /\ hist[i].item.Group = g /\ hist[i].item.Name = n
        /\ UTCDay(hist[i].item.CreatedAt) = d}

Min(S) == CHOOSE x \in S : \A y \in S : x <= y
Max(S) == CHOOSE x \in S : \A y \in S : x >= y

\* no upsert from the i-th on exceeded the eviction bound
NoEvictionSince(i) == \A j \in i..Len(hist) : hist[j].drops = 0

\* the entries GetGroupItems returns for probe n on day d
Retained(g, n, d) ==
    {i \in 1..Len(GetGroupItems(g)) :
        /\ GetGroupItems(g)[i].Name = n
        /\ GetGroupItems(g)[i].Type = "boolean"
        /\ UTCDay(GetGroupItems(g)[i].CreatedAt) = d}

\* C5: when boolean entries of one probe (same group and name) with createdAt
\* in the same UTC day were upserted one after the other and the eviction
\* bound was not exceeded from the first of them on, GetGroupItems holds
\* exactly one entry for that probe and day, and it is the one submitted last.
C5_BooleanReplace ==
    \A g \in Groups, n \in Names, d \in UTCDay(-DayTicks)..UTCDay(MaxTime) :
        LET S == BoolSubmissions(g, n, d)
        IN (Cardinality(S) >= 2 /\ NoEvictionSince(Min(S))) =>
               /\ Cardinality(Retained(g, n, d)) = 1
               /\ \A i \in Retained(g, n, d) :
                      GetGroupItems(g)[i] = hist[Max(S)].item

\* ------------------------------------------------------------ the log file
\* json.Marshal of an Item: every field is written, ID included
Marshal(item) ==
    <<item.ID, item.Group, item.Name, item.Type, item.CreatedAt, item.Status>>

\* json.Marshal fails on a time.Time whose year is outside 0..9999
Marshalable(item) == item.CreatedAt <= JSONMaxTime

\* a line json.Unmarshal rejects
Malformed == <<"?">>
WellFormed(line) == Len(line) = 6

\* json.Unmarshal of a line into an Item
Unmarshal(line) ==
    [ID |-> line[1], Group |-> line[2], Name |-> line[3], Type |-> line[4],
     CreatedAt |-> line[5], Status |-> line[6]]

\* the replay loop of New, from the k-th line on
RECURSIVE Replay(_, _, _, _, _)
Replay(lines, k, d, h, mx) ==
    IF k > Len(lines) THEN [ok |-> TRUE, data |-> d, heap |-> h]
    ELSE IF ~WellFormed(lines[k]) THEN [ok |-> FALSE, data |-> d, heap |-> h]
    ELSE LET r == AddItem(d, h, mx, Unmarshal(lines[k]))
         IN IF r.panic THEN [ok |-> FALSE, data |-> d, heap |-> h]
            ELSE Replay(lines, k + 1, r.data, r.heap, mx)

MarshalAll(items) == [i \in 1..Len(items) |-> Marshal(items[i])]

\* the buffer New writes back: every container's sequence from its head, the
\* containers in the order the map iteration yields them
RECURSIVE Compacted(_, _, _)
Compacted(d, h, order) ==
    IF order = <<>> THEN <<>>
    ELSE MarshalAll(Traverse(h, d[Head(order)].head))
             \o Compacted(d, h, Tail(order))

\* the orders in which a map iteration can yield the keys S
Orders(S) ==
    {o \in [1..Cardinality(S) -> S] :
        \A i, j \in 1..Cardinality(S) : i # j => o[i] # o[j]}

\* the file after Truncate(0), Seek(0, 0) and io.Copy of the buffer
Rewritten(old, buffer) == buffer

\* history.New on the log file: replay, then compaction
New(from, to) ==
    /\ phase = from
    /\ LET r == Replay(logFile, 1, EmptyMap, <<>>, maxEntries)
       IN IF r.ok
          THEN /\ data' = r.data
               /\ heap' = r.heap
               /\ \E order \in Orders(DOMAIN r.data) :
                      logFile' = IF DOMAIN r.data # {}
                                 THEN Rewritten(logFile,
                                                Compacted(r.data, r.heap, order))
                                 ELSE logFile
               /\ synced' = Len(logFile')
               /\ phase' = to
               /\ snap' = IF from = "off"
                          THEN [data |-> r.data, heap |-> r.heap] ELSE snap
               /\ wpc' = "select"
               /\ done' = FALSE
          ELSE /\ phase' = "rejected"
               /\ UNCHANGED <<data, heap, diskVars, snap, wpc, done>>
    /\ UNCHANGED <<schedVars, maxEntries, hist, writes, lockVars, wadd, wrecs,
                   wbuf, fault, halted, callerVars, readerVars>>

\* the first construction of a store from the log file
OpenFirst == New("off", "up1")

\* File.Close: close(file.done) ...
CloseBegin ==
    /\ phase = "up1" /\ ~halted
    /\ phase' = "closing"
    /\ done' = TRUE
    /\ UNCHANGED <<schedVars, idxVars, hist, diskVars, snap, writes, lockVars,
                   writerVars, fault, halted, callerVars, readerVars>>

\* bgWriter: case <-file.done
WDone ==
    /\ wpc = "select" /\ done /\ ~halted
    /\ wpc' = "exited"
    /\ UNCHANGED <<schedVars, idxVars, hist, diskVars, recVars, writes,
                   lockVars, wadd, wrecs, wbuf, done, fault, halted, callerVars,
                   readerVars>>

\* File.Close: ... file.writerWg.Wait() returns once bgWriter has returned
CloseEnd ==
    /\ phase = "closing" /\ wpc = "exited" /\ ~halted
    /\ phase' = "down1"
    /\ UNCHANGED <<schedVars, idxVars, hist, diskVars, snap, writes, lockVars,
                   writerVars, done, fault, halted, callerVars, readerVars>>

\* the construction of a second store from the file the first one left
Reopen == New("down1", "up2")

\* number of lines of the log file the first construction reads
MaxLog == 3

RecoveryGroups == {"g1", "g2"}
\* the entries the log file can hold: both probes of g1 at every instant, the
\* metric probe in its other state at two instants, and one entry of a second
\* group
RecoveryItems ==
    {MkItem("g1", n, t, "healthy") : n \in Names, t \in Times}
        \cup {MkItem("g1", "m", t, "unhealthy") : t \in 0..1}
        \cup {MkItem("g2", "m", 0, "healthy")}
RecoveryLines == {Marshal(i) : i \in RecoveryItems} \cup {Malformed}

InitRecovery ==
    /\ data = EmptyMap
    /\ heap = <<>>
    /\ maxEntries \in 0..MaxCap
    /\ hist = <<>>
    /\ logFile \in UNION {[1..n -> RecoveryLines] : n \in 0..MaxLog}
    /\ synced = Len(logFile)
    /\ phase = "off" /\ snap = NoSnap
    /\ wpc = "off"
    /\ InitIdle
    /\ InitNoChecker

NextRecovery == OpenFirst \/ CloseBegin \/ WDone \/ CloseEnd \/ Reopen

SpecRecovery == InitRecovery /\ [][NextRecovery]_vars

\* ------------------------------------------- Append, bgWriter, the reader
\* an instant beyond the year 9999
BadTime == JSONMaxTime + 1

\* the entries the callers of Append submit: the boolean probe twice on one
\* day, the metric probe, an entry json.Marshal refuses, and an entry of a
\* second group
StoreItems ==
    {MkItem("g1", "b", 0, "healthy"), MkItem("g1", "b", 1, "unhealthy"),
     MkItem("g1", "m", 1, "healthy"), MkItem("g1", "m", BadTime, "healthy"),
     MkItem("g2", "m", 1, "healthy")}

\* the process lives until the runtime ends it
Running == ~halted

\* a panic no goroutine recovers: the runtime ends the process
FatalPanic ==
    /\ Running /\ fault # "none"
    /\ halted' = TRUE
    /\ UNCHANGED <<schedVars, idxVars, hist, diskVars, recVars, writes,
                   lockVars, writerVars, done, fault, callerVars, readerVars>>

\* File.Append: the request goes to file.writes, the caller waits on errChan
AppendCall(c, item) ==
    /\ Running /\ phase = "up1"
    /\ apc[c] = "idle"
    /\ apc' = [apc EXCEPT ![c] = "wait"]
    /\ aitem' = [aitem EXCEPT ![c] = item]
    /\ writes' = Append(writes, [caller |-> c, item |-> item])
    /\ UNCHANGED <<schedVars, idxVars, hist, diskVars, recVars, lockVars,
                   writerVars, done, fault, halted, ares, readerVars>>

\* bgWriter: case req := <-file.writes
WRecv ==
    /\ Running /\ wpc = "select"
    /\ writes # <<>>
    /\ wrecs' = <<Head(writes)>>
    /\ writes' = Tail(writes)
    /\ wpc' = "lock"
    /\ UNCHANGED <<schedVars, idxVars, hist, diskVars, recVars, lockVars,
                   wadd, wbuf, done, fault, halted, callerVars, readerVars>>

\* bgWriter: file.rwMux.Lock(), granted when nobody holds the lock
WLock ==
    /\ Running /\ wpc = "lock"
    /\ ~wlocked /\ ~rlocked
    /\ wlocked' = TRUE
    /\ wpc' = "apply"
    /\ UNCHANGED <<schedVars, idxVars, hist, diskVars, recVars, writes,
                   rlocked, wadd, wrecs, wbuf, done, fault, halted, callerVars,
                   readerVars>>

\* sendError: every receiver's errChan gets err; each receiver is a caller
\* blocked on its errChan
SendError(recs, err, res) ==
    [c \in Callers |->
        IF \E i \in 1..Len(recs) : recs[i].caller = c THEN err ELSE res[c]]
Answered(recs, pcs) ==
    [c \in Callers |->
        IF \E i \in 1..Len(recs) : recs[i].caller = c THEN "done" ELSE pcs[c]]

\* the test of the loop that collects further requests into the batch
DrainGoesOn(collect, err) == collect /\ err # "nil"

\* one round of the collecting loop: the request is added to records, a is
\* what addItem returned for it, and writeTo appends to the buffer or fails
Collected(st, a) ==
    [data |-> a.data, heap |-> a.heap, q |-> Tail(st.q),
     recs |-> Append(st.recs, Head(st.q)),
     buf |-> IF Marshalable(a.item) THEN Append(st.buf, Marshal(a.item))
             ELSE st.buf,
     err |-> IF Marshalable(a.item) THEN "nil" ELSE "fault",
     log |-> Append(st.log, [item |-> a.item, drops |-> a.drops])]

\* the loop that collects further requests: st is [data, heap, q, recs, buf,
\* err, log], log the addItem calls made
RECURSIVE Drain(_, _, _)
Drain(st, collect, mx) ==
    IF DrainGoesOn(collect, st.err)
    THEN IF st.q # <<>>
         THEN Drain(Collected(st, AddItem(st.data, st.heap, mx, Head(st.q).item)),
                    TRUE, mx)
         ELSE Drain(st, FALSE, mx)
    ELSE st

\* the values a reader may meet while node.value = item is under way on a
\* node that held an entry of the same identity: the assignment copies the
\* struct word by word, so each field is the old one or the new one
HalfWritten(old, new) ==
    IF old.ID # new.ID THEN {}
    ELSE {[new EXCEPT !.CreatedAt = t, !.Status = st] :
              t \in {old.CreatedAt, new.CreatedAt},
              st \in {old.Status, new.Status}} \ {old, new}

\* the states a write of addItem may leave on its way from h to the state
\* next: none but for the assignment of a node's value
Partial(h, next) ==
    {[data |-> next.data, heap |-> [h EXCEPT ![r[1]].value = r[2]]] :
        r \in UNION {{<<q, u>> :
                          u \in HalfWritten(h[q].value, next.heap[q].value)} :
                      q \in 1..Len(h)}}

\* bgWriter: req.item = file.addItem(req.item) is called: the group and the
\* identity are looked up
WAddItem ==
    /\ Running /\ wpc = "apply"
    /\ wadd' = AddItemWrites(data, heap, maxEntries, wrecs[1].item)
    /\ wpc' = "write"
    /\ UNCHANGED <<schedVars, idxVars, hist, diskVars, recVars, writes,
                   lockVars, wrecs, wbuf, done, fault, halted, callerVars,
                   readerVars>>

\* addItem: its next write to file.data, to the container or to a node; the
\* assignment of a value may be seen half done
WWrite ==
    /\ Running /\ wpc = "write"
    /\ wadd.writes # <<>>
    /\ \E st \in {Head(wadd.writes)} \cup Partial(heap, Head(wadd.writes)) :
           /\ data' = st.data
           /\ heap' = st.heap
           /\ wadd' = IF st = Head(wadd.writes)
                      THEN [wadd EXCEPT !.writes = Tail(@)]
                      ELSE wadd
    /\ UNCHANGED <<schedVars, maxEntries, hist, diskVars, recVars, writes,
                   lockVars, wpc, wrecs, wbuf, done, fault, halted, callerVars,
                   readerVars>>

\* bgWriter: addItem has returned, and writeTo fails: the fault goes to the
\* request's caller and the loop goes round
WApplyFault ==
    /\ Running /\ wpc = "write"
    /\ wadd.writes = <<>>
    /\ ~wadd.panic
    /\ ~Marshalable(wadd.item)
    /\ hist' = Append(hist, [item |-> wadd.item, drops |-> wadd.drops])
    /\ aitem' = [aitem EXCEPT ![wrecs[1].caller] = wadd.item]
    /\ ares' = SendError(wrecs, "fault", ares)
    /\ apc' = Answered(wrecs, apc)
    /\ wadd' = NoAdd
    /\ wpc' = "select"
    /\ UNCHANGED <<schedVars, idxVars, diskVars, recVars, writes, lockVars,
                   wrecs, wbuf, done, fault, halted, readerVars>>

\* bgWriter: addItem has returned, and writeTo succeeds
WApplyOk ==
    /\ Running /\ wpc = "write"
    /\ wadd.writes = <<>>
    /\ ~wadd.panic
    /\ Marshalable(wadd.item)
    /\ hist' = Append(hist, [item |-> wadd.item, drops |-> wadd.drops])
    /\ wbuf' = <<Marshal(wadd.item)>>
    /\ aitem' = [aitem EXCEPT ![wrecs[1].caller] = wadd.item]
    /\ wadd' = NoAdd
    /\ wpc' = "drain"
    /\ UNCHANGED <<schedVars, idxVars, diskVars, recVars, writes, lockVars,
                   wrecs, done, fault, halted, apc, ares, readerVars>>

\* bgWriter: the collecting loop, entered with collect = true and err = nil,
\* and the test of err that follows it
WDrain ==
    /\ Running /\ wpc = "drain"
    /\ LET dr == Drain([data |-> data, heap |-> heap, q |-> writes,
                        recs |-> wrecs, buf |-> wbuf, err |-> "nil",
                        log |-> hist],
                       TRUE, maxEntries)
       IN /\ data' = dr.data
          /\ heap' = dr.heap
          /\ hist' = dr.log
          /\ writes' = dr.q
          /\ wrecs' = dr.recs
          /\ wbuf' = dr.buf
          /\ IF dr.err # "nil"
             THEN /\ ares' = SendError(dr.recs, dr.err, ares)
                  /\ apc' = Answered(dr.recs, apc)
                  /\ wpc' = "sync"
             ELSE /\ wpc' = "copy"
                  /\ UNCHANGED <<ares, apc>>
    /\ UNCHANGED <<schedVars, maxEntries, diskVars, recVars, lockVars, wadd,
                   done, fault, halted, aitem, readerVars>>

\* bgWriter: io.Copy(file.fd, buffer) writes the batch, then rwMux.Unlock()
WCopy ==
    /\ Running /\ wpc = "copy"
    /\ logFile' = logFile \o wbuf
    /\ wlocked' = FALSE
    /\ wpc' = "ack"
    /\ UNCHANGED <<schedVars, idxVars, hist, synced, recVars, writes, rlocked,
                   wadd, wrecs, wbuf, done, fault, halted, callerVars, readerVars>>

\* bgWriter: io.Copy fails, perhaps after a part of the batch was written:
\* rwMux.Unlock()
WCopyFail ==
    /\ Running /\ wpc = "copy"
    /\ \E torn \in BOOLEAN :
           logFile' = IF torn THEN Append(logFile, Malformed) ELSE logFile
    /\ wlocked' = FALSE
    /\ wpc' = "panic"
    /\ UNCHANGED <<schedVars, idxVars, hist, synced, recVars, writes, rlocked,
                   wadd, wrecs, wbuf, done, fault, halted, callerVars,
                   readerVars>>

\* bgWriter: panic(err) after the failed io.Copy; the deferred
\* file.writerWg.Done() runs, and bgWriter counts as returned
WPanic ==
    /\ Running /\ wpc = "panic"
    /\ fault' = IF fault = "none" THEN "io" ELSE fault
    /\ wpc' = "exited"
    /\ UNCHANGED <<schedVars, idxVars, hist, diskVars, recVars, writes,
                   lockVars, wadd, wrecs, wbuf, done, halted, callerVars,
                   readerVars>>

\* bgWriter: sendError(records, nil)
WAck ==
    /\ Running /\ wpc = "ack"
    /\ ares' = SendError(wrecs, "ok", ares)
    /\ apc' = Answered(wrecs, apc)
    /\ wpc' = "sync"
    /\ UNCHANGED <<schedVars, idxVars, hist, diskVars, recVars, writes,
                   lockVars, wadd, wrecs, wbuf, done, fault, halted, aitem,
                   readerVars>>

\* bgWriter: file.fd.Sync(); a failure is logged as a warning
WSync ==
    /\ Running /\ wpc = "sync"
    /\ \E ok \in BOOLEAN : synced' = IF ok THEN Len(logFile) ELSE synced
    /\ wpc' = "select"
    /\ UNCHANGED <<schedVars, idxVars, hist, logFile, recVars, writes,
                   lockVars, wadd, wrecs, wbuf, done, fault, halted, callerVars,
                   readerVars>>

\* GetGroupItems: file.rwMux.RLock(); a pending Lock() holds new readers back
RLock(g) ==
    /\ Running /\ phase = "up1"
    /\ rpc = "idle"
    /\ ~wlocked /\ wpc # "lock"
    /\ rlocked' = TRUE
    /\ rpc' = "locked"
    /\ rgrp' = g
    /\ rcont' = <<>>
    /\ rlist' = <<>>
    /\ rcur' = Nil
    /\ UNCHANGED <<schedVars, idxVars, hist, diskVars, recVars, writes,
                   wlocked, writerVars, done, fault, halted, callerVars,
                   keys>>

\* GetGroupItems: container, _ := file.data[group]; file.rwMux.RUnlock()
RLookup ==
    /\ Running /\ rpc = "locked"
    /\ rcont' = IF rgrp \in DOMAIN data THEN <<rgrp>> ELSE <<>>
    /\ rlocked' = FALSE
    /\ rpc' = "head"
    /\ UNCHANGED <<schedVars, idxVars, hist, diskVars, recVars, writes,
                   wlocked, writerVars, done, fault, halted, callerVars, rgrp, rcur,
                   rlist, keys>>

\* GetGroupItems: len(container.byID) and curr := container.head, of the
\* container the lookup found
RHead ==
    /\ Running /\ rpc = "head"
    /\ rcont # <<>>
    /\ rcur' = data[rcont[1]].head
    /\ rpc' = "walk"
    /\ UNCHANGED <<schedVars, idxVars, hist, diskVars, recVars, writes,
                   lockVars, writerVars, done, fault, halted, callerVars, rgrp,
                   rcont, rlist, keys>>

\* GetGroupItems: the lookup found no container: len(container.byID)
\* dereferences nil and the process panics
RNil ==
    /\ Running /\ rpc = "head"
    /\ rcont = <<>>
    /\ fault' = IF fault = "none" THEN "nil" ELSE fault
    /\ rpc' = "panicked"
    /\ UNCHANGED <<schedVars, idxVars, hist, diskVars, recVars, writes,
                   lockVars, writerVars, done, halted, callerVars, rgrp,
                   rcont, rcur, rlist, keys>>

\* GetGroupItems: curr != nil; list = append(list, curr.value)
RStep ==
    /\ Running /\ rpc = "walk"
    /\ rcur # Nil
    /\ rlist' = Append(rlist, heap[rcur].value)
    /\ rpc' = "next"
    /\ UNCHANGED <<schedVars, idxVars, hist, diskVars, recVars, writes,
                   lockVars, writerVars, done, fault, halted, callerVars, rgrp,
                   rcont, rcur, keys>>

\* GetGroupItems: curr = curr.next
RNext ==
    /\ Running /\ rpc = "next"
    /\ rcur' = heap[rcur].next
    /\ rpc' = "walk"
    /\ UNCHANGED <<schedVars, idxVars, hist, diskVars, recVars, writes,
                   lockVars, writerVars, done, fault, halted, callerVars, rgrp,
                   rcont, rlist, keys>>

\* GetGroupItems: curr == nil: return list
RReturn ==
    /\ Running /\ rpc = "walk"
    /\ rcur = Nil
    /\ rpc' = "idle"
    /\ UNCHANGED <<schedVars, idxVars, hist, diskVars, recVars, writes,
                   lockVars, writerVars, done, fault, halted, callerVars, rgrp,
                   rcont, rcur, rlist, keys>>

\* GetGroups: keys := make([]string, len(file.data)), with no lock held
GSize ==
    /\ Running /\ phase = "up1"
    /\ rpc = "idle"
    /\ keys' = [k \in 1..Cardinality(DOMAIN data) |-> ""]
    /\ rpc' = "sized"
    /\ UNCHANGED <<schedVars, idxVars, hist, diskVars, recVars, writes,
                   lockVars, writerVars, done, fault, halted, callerVars, rgrp, rcont,
                   rcur, rlist>>

\* GetGroups: file.rwMux.RLock()
GLock ==
    /\ Running /\ rpc = "sized"
    /\ ~wlocked /\ wpc # "lock"
    /\ rlocked' = TRUE
    /\ rpc' = "fill"
    /\ UNCHANGED <<schedVars, idxVars, hist, diskVars, recVars, writes,
                   wlocked, writerVars, done, fault, halted, callerVars, rgrp, rcont,
                   rcur, rlist, keys>>

\* keys after keys[idx] = key for the keys of order, from idx = 1 on
Filled(ks, order) ==
    [k \in 1..Len(ks) |-> IF k <= Len(order) THEN order[k] ELSE ks[k]]

\* GetGroups: the range loop over file.data fills keys; file.rwMux.RUnlock()
GFill ==
    /\ Running /\ rpc = "fill"
    /\ Cardinality(DOMAIN data) <= Len(keys)
    /\ \E order \in Orders(DOMAIN data) : keys' = Filled(keys, order)
    /\ rlocked' = FALSE
    /\ rpc' = "filled"
    /\ UNCHANGED <<schedVars, idxVars, hist, diskVars, recVars, writes,
                   wlocked, writerVars, done, fault, halted, callerVars, rgrp, rcont,
                   rcur, rlist>>

\* GetGroups: keys[idx] = key with idx beyond the length of keys: the index
\* is out of range and the process panics
GFillPanic ==
    /\ Running /\ rpc = "fill"
    /\ Cardinality(DOMAIN data) > Len(keys)
    /\ fault' = IF fault = "none" THEN "index" ELSE fault
    /\ rpc' = "panicked"
    /\ UNCHANGED <<schedVars, idxVars, hist, diskVars, recVars, writes,
                   lockVars, writerVars, done, halted, callerVars, rgrp,
                   rcont, rcur, rlist, keys>>

\* GetGroups: return keys
GReturn ==
    /\ Running /\ rpc = "filled"
    /\ rpc' = "idle"
    /\ keys' = <<>>
    /\ UNCHANGED <<schedVars, idxVars, hist, diskVars, recVars, writes,
                   lockVars, writerVars, done, fault, halted, callerVars, rgrp, rcont,
                   rcur, rlist>>

\* a store constructed on an absent log file: New has started bgWriter
InitStore ==
    /\ data = EmptyMap
    /\ heap = <<>>
    /\ maxEntries \in 0..MaxCap
    /\ hist = <<>>
    /\ logFile = <<>> /\ synced = 0
    /\ phase = "up1" /\ snap = NoSnap
    /\ wpc = "select"
    /\ InitIdle
    /\ InitNoChecker

\* bgWriter serving a request
WriterStep ==
    \/ WRecv \/ WLock \/ WAddItem \/ WWrite \/ WApplyFault \/ WApplyOk
    \/ WDrain \/ WCopy \/ WCopyFail \/ WPanic \/ WAck \/ WSync

WriterNext == WriterStep \/ WDone

ReaderNext ==
    \/ RLookup \/ RHead \/ RNil \/ RStep \/ RNext \/ RReturn
    \/ GLock \/ GFill \/ GFillPanic \/ GReturn

NextStore ==
    \/ \E c \in Callers, item \in StoreItems : AppendCall(c, item)
    \/ WriterNext
    \/ \E g \in RecoveryGroups : RLock(g)
    \/ GSize
    \/ ReaderNext
    \/ CloseBegin \/ CloseEnd
    \/ FatalPanic

\* the Go scheduler lets a goroutine that can take its next step take it
SpecStore ==
    /\ InitStore /\ [][NextStore]_vars
    /\ WF_vars(WriterNext) /\ WF_vars(ReaderNext) /\ WF_vars(FatalPanic)

\* ---------------------------------------------------- claims on the store
\* the lines an fsync has forced to disk
Durable == {logFile[i] : i \in 1..synced}

\* C1: on a running store every Append call receives a completion result (no
\* submitted entry is left without one), and a call whose result is success
\* has its entry in the log file.
C1_EveryCallAnswered ==
    /\ \A c \in Callers :
           (apc[c] = "wait") ~> (apc[c] = "done" \/ done \/ fault # "none")
    /\ [](\A c \in Callers :
             ares[c] = "ok" => Marshal(aitem[c]) \in Range(logFile))

\* C2: a caller of Append is told success only after the batch holding its
\* entry was written to the log file and forced to stable storage.
C2_FsyncBeforeAck ==
    \A c \in Callers : ares[c] = "ok" => Marshal(aitem[c]) \in Durable

\* C3: a reader never observes an index state that is not yet durable: what
\* it reads of the index it reads holding the shared lock, the coordinator
\* holds the exclusive lock from the index mutation until the batch is
\* flushed, and every entry the reader collects is durable.
C3_ReadersSeeDurable ==
    /\ rpc \in {"head", "walk", "next"} => rlocked
    /\ wpc \in {"write", "drain", "copy", "ack", "sync"} => wlocked
    /\ \A i \in 1..Len(rlist) : Marshal(rlist[i]) \in Durable

\* ------------------------------------------------- claims on the recovery
\* the entries GetGroupItems returns for g in the store [data d, heap h]
ListedIn(d, h, g) ==
    IF g \in DOMAIN d THEN Range(Traverse(h, d[g].head)) ELSE {}

\* the entries the identity map of g holds in the store [data d, heap h]
IndexedIn(d, h, g) ==
    IF g \in DOMAIN d THEN {h[d[g].byID[k]].value : k \in DOMAIN d[g].byID}
    ELSE {}

\* C7: for every log file that New accepts, constructing a store from it,
\* closing it and constructing a store again from the file it left, with the
\* same maxEntries, yields for every group the same set of retained entries
\* (those GetGroupItems returns) as the first construction did.
C7_RecoveryIdempotent ==
    phase = "up2" =>
        \A g \in RecoveryGroups :
            ListedIn(data, heap, g) = ListedIn(snap.data, snap.heap, g)

\* ------------------------------------------ Checker: Check, Start, Close
\* the largest MaxRetries a Checker is configured with
MaxN == 3

storeVars == <<idxVars, hist, diskVars, recVars, writes, lockVars, writerVars,
               done, callerVars, readerVars>>

\* checker.New: a MaxRetries of 0 becomes 1
NewMaxRetries(n) == IF n = 0 THEN 1 ELSE n

\* Check's loop test with the bound included
LoopTestInclusive(k, n) == k <= n

\* Check: for i := 0; i < c.MaxRetries; i++
LoopTest(k, n) == k < n

\* the longest standard output of a command, in characters
MaxOut == 2
\* the characters a command prints: a blank, a digit, anything else
Chars == {" ", "4", "x"}
Stdouts == UNION {[1..n -> Chars] : n \in 0..MaxOut}
\* what cmd.Run returns: nil, an *exec.ExitError (a non-zero exit, or the
\* process killed at the deadline), or another error (the shell did not start)
RunErrs == {"nil", "exit", "killed", "spawn"}
IsExitError(err) == err \in {"exit", "killed"}
\* the outcomes of the command: any output when it exits with zero, no
\* output or a number when it fails
Outcomes ==
    {[err |-> "nil", stdout |-> o] : o \in Stdouts}
        \cup {[err |-> e, stdout |-> o] : e \in RunErrs \ {"nil"},
                                         o \in {<<>>, <<"4">>}}
\* what time.Now() returns when the command has ended: an instant of the
\* first day, or one beyond the year 9999 on a host with such a clock
Clock == {1, BadTime}
Runs ==
    {[err |-> o.err, stdout |-> o.stdout, now |-> t] :
        o \in Outcomes, t \in Clock}

\* strings.TrimSpace
RECURSIVE TrimSpace(_)
TrimSpace(s) ==
    IF s = <<>> THEN s
    ELSE IF Head(s) = " " THEN TrimSpace(Tail(s))
    ELSE IF s[Len(s)] = " " THEN TrimSpace(SubSeq(s, 1, Len(s) - 1))
    ELSE s

\* the digits of a number, read from the left: [ok, n]
RECURSIVE ParseDigits(_, _)
ParseDigits(s, acc) ==
    IF s = <<>> THEN [ok |-> TRUE, n |-> acc]
    ELSE IF Head(s) = "4" THEN ParseDigits(Tail(s), 10 * acc + 4)
    ELSE [ok |-> FALSE, n |-> 0]

\* strconv.ParseFloat on these characters: [ok, n]; the empty string is a
\* syntax error
ParseFloat(s) ==
    IF s = <<>> THEN [ok |-> FALSE, n |-> 0] ELSE ParseDigits(s, 0)

\* check deciding by the exit alone, the metric left unparsed
checkExitOnly(type, err, stdout, k) ==
    IF err # "nil" /\ IsExitError(err)
    THEN Entry("unhealthy", "Process exited with status", 0, k)
    ELSE IF err # "nil"
    THEN Entry("unhealthy", "Failed to run", 0, k)
    ELSE Entry("healthy", "", 0, k)

\* Checker.check: the entry of one run of the command
check(type, err, stdout, k) ==
    IF err # "nil" /\ IsExitError(err)
    THEN Entry("unhealthy", "Process exited with status", 0, k)
    ELSE IF err # "nil"
    THEN Entry("unhealthy", "Failed to run", 0, k)
    ELSE IF type = "metric"
    THEN LET r == ParseFloat(TrimSpace(stdout))
         IN IF r.ok THEN Entry("healthy", "", r.n, k)
            ELSE Entry("unhealthy", "Failed to parse metric from output", 0, k)
    ELSE Entry("healthy", "", 0, k)

\* wg.Wait returning whatever the counter is
WaitReturnsAtOnce(n) == TRUE

\* wg.Wait returns when the counter is zero
WaitReturns(n) == n = 0

\* Start's loop never calling the receiver
NotifyNever(recv) == "sleep"

\* Start: if receiver != nil, OnCheckerStatus is called next
NotifyNext(recv) == IF recv THEN "notify" ELSE "sleep"

\* Checker.Start: wg.Add(1) and the goroutine
Start(recv) ==
    /\ Running /\ lpc = "idle"
    /\ wg' = wg + 1
    /\ receiver' = recv
    /\ lpc' = "loop"
    /\ UNCHANGED <<storeVars, fault, halted, MaxRetries, ctype, ran, acked, notes,
                   doneChan, ci, citem, attempts, notified, cpc>>

\* Start's loop calls Check: var item history.Item; i := 0
CheckBegin ==
    /\ Running /\ lpc = "loop"
    /\ ci' = 0
    /\ citem' = ZeroItem
    /\ attempts' = <<>>
    /\ acked' = FALSE
    /\ notes' = 0
    /\ lpc' = "test"
    /\ UNCHANGED <<storeVars, fault, halted, MaxRetries, ctype, ran, receiver,
                   doneChan, wg, notified, cpc>>

\* Check: the loop test, and if i > 0 the wait before the next attempt;
\* when the test fails Check returns item
CheckTest ==
    /\ Running /\ lpc = "test"
    /\ lpc' = IF LoopTest(ci, MaxRetries)
              THEN IF ci > 0 THEN "retryWait" ELSE "attempt"
              ELSE "poll"
    /\ UNCHANGED <<storeVars, fault, halted, MaxRetries, ctype, ran, acked, notes,
                   receiver, doneChan, wg, ci, citem, attempts, notified,
                   cpc>>

\* Check: case <-time.After(c.RetryInterval)
RetryTimer ==
    /\ Running /\ lpc = "retryWait"
    /\ lpc' = "attempt"
    /\ UNCHANGED <<storeVars, fault, halted, MaxRetries, ctype, ran, acked, notes,
                   receiver, doneChan, wg, ci, citem, attempts, notified,
                   cpc>>

\* Check: case <-c.doneChan: return item
RetryDone ==
    /\ Running /\ lpc = "retryWait"
    /\ doneChan = "closed"
    /\ lpc' = "poll"
    /\ UNCHANGED <<storeVars, fault, halted, MaxRetries, ctype, ran, acked, notes,
                   receiver, doneChan, wg, ci, citem, attempts, notified,
                   cpc>>

\* Check: item = c.check(); return item unless its status is unhealthy; i++
Attempt(run) ==
    /\ Running /\ lpc = "attempt"
    /\ ran' = run
    /\ citem' = check(ctype, run.err, run.stdout, ci + 1)
    /\ attempts' = Append(attempts, citem')
    /\ IF citem'.Status # "unhealthy"
       THEN lpc' = "poll" /\ ci' = ci
       ELSE lpc' = "test" /\ ci' = ci + 1
    /\ UNCHANGED <<storeVars, fault, halted, MaxRetries, ctype, acked, notes,
                   receiver, doneChan, wg, notified, cpc>>

\* Start: select { case <-c.doneChan: the write is skipped; the Check call
\* is over
PollClosed ==
    /\ Running /\ lpc = "poll"
    /\ doneChan = "closed"
    /\ lpc' = "sleep"
    /\ ran' = NoRun
    /\ attempts' = <<>>
    /\ UNCHANGED <<storeVars, fault, halted, MaxRetries, ctype, acked, notes,
                   receiver, doneChan, wg, ci, citem, notified, cpc>>

\* Start: select { ... default: nothing to receive from doneChan
PollOpen ==
    /\ Running /\ lpc = "poll"
    /\ doneChan = "open"
    /\ lpc' = "append"
    /\ UNCHANGED <<storeVars, fault, halted, MaxRetries, ctype, ran, acked, notes,
                   receiver, doneChan, wg, ci, citem, attempts, notified,
                   cpc>>

\* the goroutine of Start is the first caller of File.Append
Loop == 1
\* the probe of the Checker: its group and its name
ProbeGroup == "g1"
ProbeName(type) == IF type = "boolean" THEN "b" ELSE "m"

\* the history.Item that Check returned: the zero value when no attempt was
\* made, or the item check() built at the instant now
CheckItem(entry, type, now) ==
    IF entry = ZeroItem THEN ZeroValue
    ELSE MkItem(ProbeGroup, ProbeName(type), now, entry.Status)

\* Start: c.History.Append(item) is called: File.Append sends the request on
\* file.writes and waits on errChan; the Check call is over, its item is in
\* the request
AppendIssue ==
    /\ Running /\ lpc = "append"
    /\ apc[Loop] = "idle"
    /\ apc' = [apc EXCEPT ![Loop] = "wait"]
    /\ aitem' = [aitem EXCEPT ![Loop] = CheckItem(citem, ctype, ran.now)]
    /\ writes' = Append(writes, [caller |-> Loop,
                                 item |-> CheckItem(citem, ctype, ran.now)])
    /\ lpc' = "await"
    /\ ran' = NoRun
    /\ attempts' = <<>>
    /\ UNCHANGED <<idxVars, hist, diskVars, recVars, lockVars, writerVars,
                   done, ares, readerVars, fault, halted, MaxRetries, ctype, acked,
                   notes, receiver, doneChan, wg, ci, citem, notified, cpc>>

\* Start: errChan delivered nil: Append returned nil
AppendOk ==
    /\ Running /\ lpc = "await"
    /\ apc[Loop] = "done" /\ ares[Loop] = "ok"
    /\ apc' = [apc EXCEPT ![Loop] = "idle"]
    /\ ares' = [ares EXCEPT ![Loop] = "none"]
    /\ acked' = TRUE
    /\ lpc' = NotifyNext(receiver)
    /\ UNCHANGED <<idxVars, hist, diskVars, recVars, writes, lockVars,
                   writerVars, done, aitem, readerVars, fault, halted, MaxRetries,
                   ctype, ran, notes, receiver, doneChan, wg, ci, citem,
                   attempts, notified, cpc>>

\* Start: errChan delivered an error: panic(err) unwinds the goroutine, and
\* the deferred c.wg.Done() runs
AppendErr ==
    /\ Running /\ lpc = "await"
    /\ apc[Loop] = "done" /\ ares[Loop] = "fault"
    /\ wg' = wg - 1
    /\ fault' = IF fault = "none" THEN "panic" ELSE fault
    /\ lpc' = "panicked"
    /\ UNCHANGED <<storeVars, halted, MaxRetries, ctype, ran, acked, notes,
                   receiver, doneChan, ci, citem, attempts, notified, cpc>>

\* Start: receiver.OnCheckerStatus(item.Status, item.Group, item.Name)
OnCheckerStatus ==
    /\ Running /\ lpc = "notify"
    /\ notified' = citem
    /\ notes' = notes + 1
    /\ lpc' = "sleep"
    /\ UNCHANGED <<storeVars, fault, halted, MaxRetries, ctype, ran, acked, receiver,
                   doneChan, wg, ci, citem, attempts, cpc>>

\* the number of Append calls of the loop in a behaviour of SpecSched
MaxAppends == 2

\* Start: case <-time.After(c.Interval)
SleepTimer ==
    /\ Running /\ lpc = "sleep"
    /\ Len(hist) < MaxAppends
    /\ lpc' = "loop"
    /\ UNCHANGED <<storeVars, fault, halted, MaxRetries, ctype, ran, acked, notes,
                   receiver, doneChan, wg, ci, citem, attempts, notified,
                   cpc>>

\* Start: case <-c.doneChan: return, and the deferred c.wg.Done()
SleepDone ==
    /\ Running /\ lpc = "sleep"
    /\ doneChan = "closed"
    /\ lpc' = "exited"
    /\ wg' = wg - 1
    /\ UNCHANGED <<storeVars, fault, halted, MaxRetries, ctype, ran, acked, notes,
                   receiver, doneChan, ci, citem, attempts, notified, cpc>>

\* Checker.Close, called once on a started Checker: close(c.doneChan)
CheckerClose ==
    /\ Running /\ cpc = "idle"
    /\ lpc # "idle"
    /\ doneChan' = "closed"
    /\ cpc' = "wait"
    /\ UNCHANGED <<storeVars, fault, halted, MaxRetries, ctype, ran, acked, notes,
                   receiver, wg, lpc, ci, citem, attempts, notified>>

\* Checker.Close: c.wg.Wait() returns
CheckerCloseReturn ==
    /\ Running /\ cpc = "wait"
    /\ WaitReturns(wg)
    /\ cpc' = "returned"
    /\ UNCHANGED <<storeVars, fault, halted, MaxRetries, ctype, ran, acked, notes,
                   receiver, doneChan, wg, lpc, ci, citem, attempts,
                   notified>>

\* checker.New on a configured Checker with a store that is up
InitSched ==
    /\ data = EmptyMap
    /\ heap = <<>>
    /\ maxEntries = 0
    /\ hist = <<>>
    /\ logFile = <<>> /\ synced = 0
    /\ phase = "up1" /\ snap = NoSnap
    /\ wpc = "select"
    /\ InitIdle
    /\ \E n \in -1..MaxN : MaxRetries = NewMaxRetries(n)
    /\ ctype \in {"boolean", "metric"}
    /\ ran = NoRun
    /\ receiver = FALSE
    /\ doneChan = "open" /\ wg = 0
    /\ lpc = "idle" /\ ci = 0 /\ citem = ZeroItem /\ attempts = <<>>
    /\ notified = ZeroItem /\ acked = FALSE /\ notes = 0 /\ cpc = "idle"

\* the steps of the loop that wait for nothing but the subprocess and the store
LoopStep ==
    \/ CheckBegin \/ CheckTest
    \/ \E run \in Runs : Attempt(run)
    \/ PollClosed \/ PollOpen \/ AppendIssue \/ AppendOk \/ AppendErr
    \/ OnCheckerStatus

NextSched ==
    \/ \E recv \in BOOLEAN : Start(recv)
    \/ LoopStep
    \/ WriterStep
    \/ RetryTimer \/ RetryDone
    \/ SleepTimer \/ SleepDone
    \/ CheckerClose \/ CheckerCloseReturn
    \/ FatalPanic

\* the subprocess ends and bgWriter, which the Go scheduler lets run, answers;
\* a select with several ready cases picks one at random, so a case that is
\* ready again and again is taken
SpecSched ==
    /\ InitSched /\ [][NextSched]_vars
    /\ WF_vars(LoopStep) /\ WF_vars(WriterStep) /\ WF_vars(CheckerCloseReturn)
    /\ SF_vars(RetryDone) /\ SF_vars(SleepDone) /\ WF_vars(FatalPanic)

\* -------------------------------------------------- claims on the Checker
\* C8: with MaxRetries = n >= 1 and no close signal, a Check call that has
\* returned made between 1 and n attempts, every attempt but the last was
\* unhealthy, the last one was unhealthy only if it was the n-th, and the
\* entry returned is the entry of the last attempt.
C8_RetryPolicy ==
    (lpc = "poll" /\ doneChan = "open" /\ MaxRetries >= 1) =>
        LET k == Len(attempts)
        IN /\ k \in 1..MaxRetries
           /\ \A j \in 1..(k - 1) : attempts[j].Status = "unhealthy"
           /\ attempts[k].Status = "unhealthy" => k = MaxRetries
           /\ \A j \in 1..k : attempts[j].Attempt = j
           /\ citem = attempts[k]

\* Check has returned from a command that failed in each of MaxRetries = 3
\* attempts, and no close signal was raised
C8_Witness ==
    /\ lpc = "poll" /\ doneChan = "open"
    /\ MaxRetries = MaxN
    /\ Len(attempts) = MaxN
    /\ citem.Status = "unhealthy" /\ citem.Attempt = MaxN

\* C9: the loop of Start never issues File.Append once Close has closed
\* doneChan.
C9_NoAppendAfterClose ==
    [][(lpc = "append" /\ lpc' = "await") => doneChan = "open"]_vars

\* C10: once Close has raised the close signal it returns (unless a goroutine
\* panics, which ends the process), when it has returned the goroutine of
\* Start has left the loop for good (by its return, or unwound by the panic
\* on an error of the store), and from then on the Checker makes no attempt,
\* no submission and no notification.
C10_CloseReturns ==
    /\ (cpc = "wait") ~> (cpc = "returned" \/ fault # "none")
    /\ [](cpc = "returned" => lpc \in {"exited", "panicked"} /\ wg = 0)
    /\ [][cpc = "returned" => UNCHANGED <<lpc, ci, citem, attempts, notified>>]_vars

\* Close has returned on a Checker whose loop had recorded an entry and
\* notified the receiver
C10_Witness ==
    /\ cpc = "returned"
    /\ lpc = "exited"
    /\ notified # ZeroItem
    /\ hist # <<>>

\* blanks, then one or more digits, then blanks
Numeric(s) ==
    \E a \in 1..Len(s), b \in 1..Len(s) :
        /\ a <= b
        /\ \A j \in 1..Len(s) : s[j] = (IF j \in a..b THEN "4" ELSE " ")

\* C11: the entry of every attempt is healthy exactly when the command exited
\* with zero and the probe is boolean, or is a metric whose trimmed standard
\* output is a number; in every other case (non-zero exit, killed at the
\* deadline, not started, output that is no number) it is unhealthy; and its
\* error is non-empty exactly when it is unhealthy.
C11_Classification ==
    attempts # <<>> =>
        /\ citem.Status = "healthy" <=>
               /\ ran.err = "nil"
               /\ ctype = "boolean" \/ (ctype = "metric" /\ Numeric(ran.stdout))
        /\ citem.Status # "healthy" => citem.Status = "unhealthy"
        /\ citem.Error # "" <=> citem.Status = "unhealthy"

\* a metric probe whose command exited with zero and printed no number
C11_Witness ==
    /\ ctype = "metric"
    /\ ran.err = "nil" /\ ran.stdout = <<"x">>
    /\ citem.Status = "unhealthy"
    /\ citem.Error # ""

\* C12: when bgWriter, woken by one request, goes through its drain loop while
\* further requests wait in file.writes, it takes all of them: the queue is
\* empty when the loop ends and records holds the first request and every
\* request that was waiting.
C12_GroupCommit ==
    [][(wpc = "drain" /\ wpc' # "drain") =>
           /\ writes' = <<>>
           /\ Len(wrecs') = Len(wrecs) + Len(writes)]_vars

\* the nodes reached from curr by next
RECURSIVE SeqNodes(_, _)
SeqNodes(h, curr) ==
    IF curr = Nil THEN {} ELSE {curr} \cup SeqNodes(h, h[curr].next)
\* the nodes the identity map of a container holds
MapNodes(c) == {c.byID[k] : k \in DOMAIN c.byID}

\* C13: after every upsert, in any order of createdAt and with eviction
\* active, the identity map and the sequence of each group container hold
\* exactly the same nodes.
C13_IndexConsistent ==
    \A g \in DOMAIN data : MapNodes(data[g]) = SeqNodes(heap, data[g].head)

NonIncreasing(s) ==
    \A j \in 1..(Len(s) - 1) : s[j].CreatedAt >= s[j + 1].CreatedAt

\* C14: after every upsert, for any mix of metric inserts and boolean
\* same-day replacements, the sequence of each group container, traversed
\* from the head, is non-increasing in createdAt.
C14_Ordered ==
    \A g \in DOMAIN data : NonIncreasing(GetGroupItems(g))

\* C15: once bgWriter has reported a serialization fault to the caller of the
\* offending request, it releases the exclusive lock (unless the store is
\* closed or the process has ended in a panic), so that the requests and the
\* readers that come afterwards are served.
C15_FaultScoped ==
    \A c \in Callers :
        (ares[c] = "fault") ~> (~wlocked \/ done \/ fault # "none")

\* the lines of the entries the identity maps hold, and of those the
\* sequences hold
IndexedLines == {Marshal(e) : e \in UNION {IndexedIn(data, heap, g) : g \in DOMAIN data}}
ListedLines == {Marshal(e) : e \in UNION {ListedIn(data, heap, g) : g \in DOMAIN data}}

\* C16: when New has completed on a log with at least one entry, the log file
\* holds exactly the entries of the index, one line each: those of the
\* identity maps, which are those of the sequences.
C16_Compaction ==
    (phase = "up1" /\ snap.heap # <<>>) =>
        /\ Range(logFile) = IndexedLines
        /\ Range(logFile) = ListedLines
        /\ Len(logFile) = Cardinality(IndexedLines)

\* C17: in an iteration of Start's loop with a receiver, OnCheckerStatus is
\* called at most once, only after Append returned nil and with the entry of
\* this iteration, and when the iteration is over it was called exactly when
\* Append returned nil; in an iteration that skipped the write it is not
\* called.
C17_NotifyAfterAck ==
    receiver =>
        /\ notes <= 1
        /\ notes = 1 => (acked /\ notified = citem)
        /\ notes = 1 => /\ aitem[Loop].Status = citem.Status
                        /\ \E k \in 1..Len(logFile) :
                               logFile[k] = Marshal(aitem[Loop])
        /\ lpc \in {"sleep", "loop", "exited"} => (notes = 1 <=> acked)
        /\ lpc = "notify" => acked

\* an iteration with a receiver is over: the entry was recorded and the
\* receiver was told once
C17_Witness ==
    /\ receiver /\ lpc = "sleep"
    /\ acked /\ notes = 1
    /\ notified = citem /\ citem.Status = "unhealthy"
    /\ Len(logFile) = MaxAppends

\* C18: after every upsert, for every maxEntries >= 0, a group container
\* holds at most maxEntries entries, in its identity map and in its sequence,
\* the first entry of a new or emptied container included.
C18_SizeBound ==
    \A g \in DOMAIN data :
        /\ Cardinality(DOMAIN data[g].byID) <= maxEntries
        /\ Len(GetGroupItems(g)) <= maxEntries

\* C19: for every MaxRetries, zero and negative included, a Check call that
\* has returned made at least one attempt, and the entry the loop submits to
\* the store has status healthy or unhealthy.
C19_AtLeastOneAttempt ==
    /\ lpc = "poll" => Len(attempts) >= 1
    /\ lpc \in {"append", "await"} => citem.Status \in {"healthy", "unhealthy"}

\* C20: GetGroups, run while bgWriter creates group containers, never ends
\* in a fault, and what it returns is exactly the groups that existed while
\* it held the shared lock, each once, with no empty element.
C20_GetGroups ==
    /\ [](fault # "index")
    /\ [][(rpc = "fill" /\ rpc' = "filled") =>
              /\ Len(keys') = Cardinality(DOMAIN data)
              /\ Range(keys') = DOMAIN data]_vars
====
